---------------------------- MODULE Spec2Model ----------------------------
(***************************************************************************)
(* finchan.exts.scheduler: the job registry (JobMananger), the jobs' run   *)
(* time computation (Job) and the two drivers (LiveScheduler and           *)
(* BackTrackScheduler) that push fire events to the dispatcher.            *)
(*                                                                         *)
(* Instants are datetimes without microseconds, held as the number of      *)
(* seconds since 1970-01-01 00:00:00; the calendar operators convert to    *)
(* and from the fields (year, month, day, hour, minute, second) the code   *)
(* reads and replaces.                                                     *)
(***************************************************************************)
EXTENDS Integers, Sequences, FiniteSets, TLC

(***************************************************************************)
(* Bounds of the model.                                                    *)
(***************************************************************************)
\* job objects the callers create
NumJobs == 2
\* largest step given to every() and to()
MaxStep == 1
\* seconds the clock advances beyond T0
MaxTick == 1
\* fire events a driver generates in one run
MaxEvents == 2

(***************************************************************************)
(* The calendar: datetime and dateutil.relativedelta.                      *)
(***************************************************************************)
\* None, for an instant (next_run, last_run, limit_dt) and for a job (get_next_job)
NoneDt == 0 - 1
NoJob == 0

IsLeap(y) == (y % 4 = 0 /\ y % 100 # 0) \/ y % 400 = 0

DaysInMonth(y, m) ==
    IF m = 2 THEN (IF IsLeap(y) THEN 29 ELSE 28)
    ELSE IF m \in {4, 6, 9, 11} THEN 30 ELSE 31

\* days from 1970-01-01 to the civil date y-m-d
DaysFromCivil(y, m, d) ==
    LET yy  == IF m <= 2 THEN y - 1 ELSE y
        era == yy \div 400
        yoe == yy - era * 400
        mp  == IF m > 2 THEN m - 3 ELSE m + 9
        doy == (153 * mp + 2) \div 5 + d - 1
        doe == yoe * 365 + yoe \div 4 - yoe \div 100 + doy
    IN  era * 146097 + doe - 719468

\* the civil date of the day z days after 1970-01-01, computed in steps: the day
\* zz counted from 0000-03-01, its 400-year era, the day of the era, the year of
\* the era, the day of the year (from March 1st) and the month (March = 0)
CivilOfMp(era, yoe, doy, mp) ==
    LET m == IF mp < 10 THEN mp + 3 ELSE mp - 9
    IN  [year  |-> yoe + era * 400 + (IF m <= 2 THEN 1 ELSE 0),
         month |-> m,
         day   |-> doy - (153 * mp + 2) \div 5 + 1]

CivilOfDoy(era, yoe, doy) == CivilOfMp(era, yoe, doy, (5 * doy + 2) \div 153)

CivilOfYoe(era, doe, yoe) ==
    CivilOfDoy(era, yoe, doe - (365 * yoe + yoe \div 4 - yoe \div 100))

CivilOfDoe(era, doe) ==
    CivilOfYoe(era, doe,
               (doe - doe \div 1460 + doe \div 36524 - doe \div 146096) \div 365)

CivilOfEra(zz, era) == CivilOfDoe(era, zz - era * 146097)

CivilFromDays(z) == CivilOfEra(z + 719468, (z + 719468) \div 146097)

\* datetime(y, mo, d, h, mi, s)
MkDt(y, mo, d, h, mi, s) ==
    DaysFromCivil(y, mo, d) * 86400 + h * 3600 + mi * 60 + s

\* the fields of the datetime t
FieldsOf(c, sod) ==
    [year |-> c.year, month |-> c.month, day |-> c.day,
     hour |-> sod \div 3600, minute |-> (sod % 3600) \div 60,
     second |-> sod % 60]

Fields(t) == FieldsOf(CivilFromDays(t \div 86400), t % 86400)

\* datetime.weekday(): Monday is 0; 1970-01-01 was a Thursday
Weekday(t) == ((t \div 86400) + 3) % 7

\* the seconds since midnight of the datetime t
TimeOfDay(t) == t % 86400

\* datetime.replace raises ValueError when the day is not one of the month
ValidFields(f) == f.day <= DaysInMonth(f.year, f.month)

FromFields(f) == MkDt(f.year, f.month, f.day, f.hour, f.minute, f.second)

\* dt + relativedelta(months=n): the day is clipped to the target month's length
ClipDay(f, y, m, last) ==
    MkDt(y, m, (IF f.day <= last THEN f.day ELSE last), f.hour, f.minute, f.second)

AddMonthsTo(f, y, m) == ClipDay(f, y, m, DaysInMonth(y, m))

AddMonthsOf(f, total) == AddMonthsTo(f, f.year + total \div 12, (total % 12) + 1)

AddMonthsFields(f, n) == AddMonthsOf(f, (f.month - 1) + n)

AddMonths(t, n) == AddMonthsFields(Fields(t), n)

\* dt + relativedelta(**{unit: n})
AddUnits(t, unit, n) ==
    CASE unit = "seconds" -> t + n
      [] unit = "minutes" -> t + n * 60
      [] unit = "hours"   -> t + n * 3600
      [] unit = "days"    -> t + n * 86400
      [] unit = "weeks"   -> t + n * 7 * 86400
      [] unit = "months"  -> AddMonths(t, n)
      [] unit = "years"   -> AddMonths(t, 12 * n)

\* parse_dt("1970-01-01 00:00:00"), the default anchor of a job
Epoch == MkDt(1970, 1, 1, 0, 0, 0)


(***************************************************************************)
(* Inputs of the model.                                                    *)
(***************************************************************************)
\* the instant the clock shows when the scheduler is loaded
T0 == MkDt(2024, 1, 1, 9, 0, 0)

JobIds == 1..NumJobs
\* the entries the registry may hold: one job may be registered twice
MaxReg == NumJobs + 1
\* Job.unit_types
UnitTypes == {"once", "seconds", "minutes", "hours", "days", "weeks", "months", "years"}
\* Job.unit before a unit method is called (None)
NoUnit == "none"
\* the steps handed to every() and to()
StepValues == 0..MaxStep
\* the steps handed to to(): a step below every step every() and at() give as well
ToValues == StepValues \cup {0 - 1}
\* the tags handed to tag() and clear()
Tags == {"a", "b"}
\* an offset_dt that at() does not take: None, or a text parse_dt rejects
NoDt == NoneDt
\* the instants handed to JobMananger.at() in the driver model
OnceAnchors == {T0 + 1, T0 + 2}
\* the horizons handed to BackTrackScheduler.gen_events
Limits == {NoneDt, T0 + 1}

(***************************************************************************)
(* State.                                                                  *)
(***************************************************************************)
VARIABLES
    now,        \* env.now
    created,    \* the Job objects constructed so far
    job,        \* the fields of each Job object
    jobs,       \* JobMananger.jobs: the registry, in registration order
    kind,       \* the driver load_finchan_ext installed: "live" or "backtrack"
    pc,         \* where the driver's gen_events coroutine stands
    limit_dt,   \* the limit_dt argument of the running gen_events
    next_job,   \* gen_events' local next_job
    pending,    \* the event gen_event returned, while put_event has not taken it
    events,     \* the events put_event has handed to the dispatcher, in order
    hung,       \* the flow is inside a catch-up loop that cannot end
    stopped,    \* history: LiveScheduler.stop has been called
    last,       \* history: the last call made, its arguments, the registry's length before
    fires       \* history: the last event generated and the registry it was chosen
                \* from, forgotten when do() registers a job

vars == <<now, created, job, jobs, kind, pc, limit_dt, next_job, pending, events,
          hung, stopped, last, fires>>

NoEvent == [job |-> NoJob, dt |-> NoneDt]
NoFire == [job |-> NoJob, dt |-> NoneDt, reg |-> <<>>]

\* Job.__init__
NewJob(step, unit) ==
    [unit |-> unit, min_step |-> step, max_step |-> step, offset_dt |-> Epoch,
     tags |-> {}, next_run |-> NoneDt, last_run |-> NoneDt]

Range(s) == {s[i] : i \in 1..Len(s)}

\* the driver is suspended (or not running): the only points where other calls run
Suspended == pc \in {"idle", "put", "sleep", "returned", "raised"}

\* a caller of the scheduler's interface may run
CallerRuns == Suspended /\ ~hung

Did(op, j, t) == [op |-> op, job |-> j, tag |-> t, len |-> Len(jobs)]

InitWith(n, k) ==
    /\ now = n
    /\ created = {}
    /\ job = [j \in JobIds |-> NewJob(0, NoUnit)]
    /\ jobs = <<>>
    /\ kind = k
    /\ pc = "idle"
    /\ limit_dt = NoneDt
    /\ next_job = NoJob
    /\ pending = NoEvent
    /\ events = <<>>
    /\ hung = FALSE
    /\ stopped = FALSE
    /\ last = [op |-> "init", job |-> NoJob, tag |-> "", len |-> 0]
    /\ fires = NoFire

\* load_finchan_ext: the run mode selects the driver
Init == \E k \in {"live", "backtrack"} : InitWith(T0, k)

(***************************************************************************)
(* The builder calls.                                                      *)
(***************************************************************************)
\* the job objects are taken in order, and one job is configured at a time
Fresh(j) ==
    /\ j \notin created
    /\ \A i \in JobIds : i < j => i \in created
    /\ \A i \in created : i \in Range(jobs)

\* a created job that is not registered yet
Building(j) == j \in created /\ j \notin Range(jobs)

DrvUnchanged == UNCHANGED <<kind, stopped, pc, limit_dt, next_job, pending, events>>

\* JobMananger.every(step)
Every(j, step) ==
    /\ CallerRuns
    /\ Fresh(j)
    /\ created' = created \cup {j}
    /\ job' = [job EXCEPT ![j] = NewJob(step, NoUnit)]
    /\ last' = Did("every", j, "")
    /\ UNCHANGED <<now, jobs, hung, fires>>
    /\ DrvUnchanged

\* Job.at(offset_dt): the anchor is replaced only by a text that parses
ParsedOffset(old, dt) == IF dt = NoDt THEN old ELSE dt

\* JobMananger.at(dt)
At(j, dt) ==
    /\ CallerRuns
    /\ Fresh(j)
    /\ created' = created \cup {j}
    /\ job' = [job EXCEPT ![j] =
                 [NewJob(0, "once") EXCEPT !.offset_dt = ParsedOffset(Epoch, dt)]]
    /\ last' = Did("at", j, "")
    /\ UNCHANGED <<now, jobs, hung, fires>>
    /\ DrvUnchanged

\* Job.seconds, minutes, hours, days, weeks, months, years
SetUnit(j, u) ==
    /\ CallerRuns
    /\ Building(j)
    /\ job[j].unit = NoUnit
    /\ job' = [job EXCEPT ![j].unit = u]
    /\ last' = Did("unit", j, "")
    /\ UNCHANGED <<now, created, jobs, hung, fires>>
    /\ DrvUnchanged

\* Job.to(step): max_step is assigned before the assertion is evaluated
To(j, step) ==
    /\ CallerRuns
    /\ Building(j)
    /\ job[j].max_step = job[j].min_step
    /\ job' = [job EXCEPT ![j].max_step = step]
    /\ last' = Did(IF step >= job[j].min_step THEN "to" ELSE "to_raised", j, "")
    /\ UNCHANGED <<now, created, jobs, hung, fires>>
    /\ DrvUnchanged

\* Job.at(offset_dt) on a job every() made
JobAt(j, dt) ==
    /\ CallerRuns
    /\ Building(j)
    /\ job[j].unit \notin {"once", NoUnit}
    /\ job[j].offset_dt = Epoch
    /\ job' = [job EXCEPT ![j].offset_dt = ParsedOffset(@, dt)]
    /\ last' = Did("job_at", j, "")
    /\ UNCHANGED <<now, created, jobs, hung, fires>>
    /\ DrvUnchanged

\* Job.to(step) on a job that do() has registered
ToRegistered(j, step) ==
    /\ CallerRuns
    /\ j \in Range(jobs)
    /\ job[j].max_step = job[j].min_step
    /\ job' = [job EXCEPT ![j].max_step = step]
    /\ last' = Did(IF step >= job[j].min_step THEN "to" ELSE "to_raised", j, "")
    /\ UNCHANGED <<now, created, jobs, hung, fires>>
    /\ DrvUnchanged

\* Job.tag(tag)
Tag(j, t) ==
    /\ CallerRuns
    /\ Building(j)
    /\ t \notin job[j].tags
    /\ job' = [job EXCEPT ![j].tags = @ \cup {t}]
    /\ last' = Did("tag", j, t)
    /\ UNCHANGED <<now, created, jobs, hung, fires>>
    /\ DrvUnchanged

(***************************************************************************)
(* The run time computation.                                               *)
(***************************************************************************)
\* random.randint(min_step, max_step): every value it may return (none: ValueError)
Steps(j) == job[j].min_step .. job[j].max_step

\* env.now.replace(**replay_dict): the fields of the bench instant
BenchFields(unit, n, o) ==
    [year   |-> n.year,
     month  |-> IF unit = "years" THEN o.month ELSE n.month,
     day    |-> IF unit \in {"months", "years"} THEN o.day ELSE n.day,
     hour   |-> IF unit \in {"days", "months", "years"} THEN o.hour ELSE n.hour,
     minute |-> IF unit \in {"hours", "days", "months", "years"}
                THEN o.minute ELSE n.minute,
     second |-> IF unit \in {"minutes", "hours", "days", "months", "years"}
                THEN o.second ELSE n.second]

Ran(lr, nr) == [res |-> "ok", last_run |-> lr, next_run |-> nr]
Raised == [res |-> "raise", last_run |-> NoneDt, next_run |-> NoneDt]
Hangs == [res |-> "hang", last_run |-> NoneDt, next_run |-> NoneDt]

\* the loop of _schedule_first_run: while next_run < now, last_run = next_run and
\* _schedule_next_run. A draw that does not move next_run forward repeats the
\* iteration in the same state; when no draw moves it forward the loop never ends.
RECURSIVE CatchUp(_, _, _)
CatchUp(j, lr, nr) ==
    IF ~(nr < now) THEN {Ran(lr, nr)}
    ELSE LET adv == {s \in Steps(j) : AddUnits(nr, job[j].unit, s) > nr}
         IN  IF adv = {} THEN {Hangs}
             ELSE UNION {CatchUp(j, nr, AddUnits(nr, job[j].unit, s)) : s \in adv}

\* a first run that skips the catch-up loop
FirstRunNoCatchUp(j) ==
    IF job[j].unit = "once" THEN {Ran(job[j].last_run, job[j].offset_dt)}
    ELSE IF Steps(j) = {} THEN {Raised}
    ELSE LET f == BenchFields(job[j].unit, Fields(now), Fields(job[j].offset_dt))
         IN  IF ~ValidFields(f) THEN {Raised}
             ELSE {Ran(job[j].last_run, AddUnits(FromFields(f), job[j].unit, s)) :
                     s \in Steps(j)}

\* Job._schedule_first_run: every outcome (the run times set, an error, no return)
ScheduleFirstRun(j) ==
    IF job[j].unit = "once" THEN {Ran(job[j].last_run, job[j].offset_dt)}
    ELSE IF Steps(j) = {} THEN {Raised}
    ELSE LET f == BenchFields(job[j].unit, Fields(now), Fields(job[j].offset_dt))
         IN  IF ~ValidFields(f) THEN {Raised}
             ELSE UNION {CatchUp(j, job[j].last_run,
                                 AddUnits(FromFields(f), job[j].unit, s)) :
                           s \in Steps(j)}

\* Job._schedule_next_run: the values next_run may take
ScheduleNextRun(j, lr) ==
    IF job[j].unit = "once" THEN {job[j].next_run}
    ELSE {AddUnits(lr, job[j].unit, s) : s \in Steps(j)}

(***************************************************************************)
(* The registry.                                                           *)
(***************************************************************************)
\* list.remove: the first entry equal to j is dropped (ValueError is swallowed)
RECURSIVE Remove(_, _)
Remove(reg, j) ==
    IF reg = <<>> THEN <<>>
    ELSE IF Head(reg) = j THEN Tail(reg)
    ELSE <<Head(reg)>> \o Remove(Tail(reg), j)

\* a clear(tag) that keeps the tagged jobs
RECURSIVE OnlyTagged(_, _)
OnlyTagged(reg, t) ==
    IF reg = <<>> THEN <<>>
    ELSE IF t \in job[Head(reg)].tags THEN <<Head(reg)>> \o OnlyTagged(Tail(reg), t)
    ELSE OnlyTagged(Tail(reg), t)

\* the generator of clear(tag): the jobs that do not carry the tag, in order
RECURSIVE Untagged(_, _)
Untagged(reg, t) ==
    IF reg = <<>> THEN <<>>
    ELSE IF t \in job[Head(reg)].tags THEN Untagged(Tail(reg), t)
    ELSE <<Head(reg)>> \o Untagged(Tail(reg), t)

\* a comparison that puts the later run first
LtReversed(a, b) == job[a].next_run > job[b].next_run

\* Job.__lt__
Lt(a, b) == job[a].next_run < job[b].next_run

\* a scan that keeps the last of the smallest
RECURSIVE MinFromLast(_, _, _)
MinFromLast(reg, i, best) ==
    IF i > Len(reg) THEN best
    ELSE MinFromLast(reg, i + 1, IF ~Lt(best, reg[i]) THEN reg[i] ELSE best)

\* min(): the scan keeps the first of the smallest
RECURSIVE MinFrom(_, _, _)
MinFrom(reg, i, best) ==
    IF i > Len(reg) THEN best
    ELSE MinFrom(reg, i + 1, IF Lt(reg[i], best) THEN reg[i] ELSE best)

\* JobMananger.get_next_job
GetNextJob == IF jobs = <<>> THEN NoJob ELSE MinFrom(jobs, 2, jobs[1])

\* JobMananger.idle_seconds: next_job.next_run - now, AttributeError when
\* get_next_job returns None
IdleSeconds ==
    IF GetNextJob = NoJob THEN [res |-> "raise", seconds |-> 0]
    ELSE [res |-> "ok", seconds |-> job[GetNextJob].next_run - now]

\* a call of idle_seconds
IdleSecondsCall ==
    /\ CallerRuns
    /\ last' = Did(IF IdleSeconds.res = "ok" THEN "idle_seconds"
                   ELSE "idle_seconds_raised", GetNextJob, "")
    /\ UNCHANGED <<now, created, job, jobs, hung, fires>>
    /\ DrvUnchanged

\* Job.do: the assertion on the unit, the first run, add_job
Do(j) ==
    /\ CallerRuns
    /\ j \in created
    /\ Len(jobs) < MaxReg
    /\ IF job[j].unit \notin UnitTypes
       THEN /\ last' = Did("do_raised", j, "")
            /\ UNCHANGED <<job, jobs, hung, fires>>
       ELSE \E o \in ScheduleFirstRun(j) :
              CASE o.res = "ok" ->
                     /\ job' = [job EXCEPT ![j].last_run = o.last_run,
                                           ![j].next_run = o.next_run]
                     /\ jobs' = Append(jobs, j)
                     /\ fires' = NoFire
                     /\ last' = Did("do", j, "")
                     /\ UNCHANGED hung
                [] o.res = "raise" ->
                     /\ last' = Did("do_raised", j, "")
                     /\ UNCHANGED <<job, jobs, hung, fires>>
                [] o.res = "hang" ->
                     /\ hung' = TRUE
                     /\ last' = Did("do_hung", j, "")
                     /\ UNCHANGED <<job, jobs, fires>>
    /\ UNCHANGED <<now, created>>
    /\ DrvUnchanged

\* JobMananger.cancel(job)
Cancel(j) ==
    /\ CallerRuns
    /\ j \in created
    /\ jobs' = Remove(jobs, j)
    /\ last' = Did("cancel", j, "")
    /\ UNCHANGED <<now, created, job, hung, fires>>
    /\ DrvUnchanged

\* JobMananger.clear(tag) with a tag
Clear(t) ==
    /\ CallerRuns
    /\ jobs' = Untagged(jobs, t)
    /\ last' = Did("clear", NoJob, t)
    /\ UNCHANGED <<now, created, job, hung, fires>>
    /\ DrvUnchanged

\* JobMananger.clear(None)
ClearAll ==
    /\ CallerRuns
    /\ jobs' = <<>>
    /\ last' = Did("clear_all", NoJob, "")
    /\ UNCHANGED <<now, created, job, hung, fires>>
    /\ DrvUnchanged

\* JobMananger.cancel_all_jobs
CancelAllJobs ==
    /\ CallerRuns
    /\ jobs' = <<>>
    /\ last' = Did("cancel_all_jobs", NoJob, "")
    /\ UNCHANGED <<now, created, job, hung, fires>>
    /\ DrvUnchanged

(***************************************************************************)
(* Firing.                                                                 *)
(***************************************************************************)
\* an event that carries the clock's instant
EventDtNow(j) == now

\* Event(..., dt=self.next_run, ...): the instant is read before the run times move
EventDt(j) == job[j].next_run

\* Job.gen_event: the event is built, a once job is cancelled, any other job advances
GenEvent(j) ==
    /\ pending' = [job |-> j, dt |-> EventDt(j)]
    /\ fires' = [job |-> j, dt |-> EventDt(j), reg |-> jobs]
    /\ IF job[j].unit = "once"
       THEN /\ jobs' = Remove(jobs, j)
            /\ UNCHANGED job
       ELSE /\ \E nr \in ScheduleNextRun(j, job[j].next_run) :
                 job' = [job EXCEPT ![j].last_run = job[j].next_run,
                                    ![j].next_run = nr]
            /\ UNCHANGED jobs

\* gen_event raises: random.randint finds max_step < min_step (ValueError)
GenEventRaises(j) == job[j].unit # "once" /\ Steps(j) = {}

\* the error leaves gen_event after last_run = next_run: no event is built
GenEventFails(j) ==
    /\ job' = [job EXCEPT ![j].last_run = job[j].next_run]
    /\ UNCHANGED <<jobs, pending, fires>>

\* put_event returns: the dispatcher has the event; a once job is cancelled again
PutReturns ==
    /\ pc = "put"
    /\ events' = Append(events, pending)
    /\ pending' = NoEvent
    /\ jobs' = IF job[next_job].unit = "once" THEN Remove(jobs, next_job) ELSE jobs
    /\ pc' = "run"
    /\ UNCHANGED <<now, created, job, kind, stopped, limit_dt, next_job, hung, fires>>

(***************************************************************************)
(* The drivers.                                                            *)
(***************************************************************************)
\* the dispatcher starts the event source's gen_events(limit_dt), unless it has
\* stopped the event source
Start(limit) ==
    /\ pc = "idle"
    /\ ~hung
    /\ ~stopped
    /\ kind = "live" => limit = NoneDt
    /\ pc' = "run"
    /\ limit_dt' = limit
    /\ last' = Did("start", NoJob, "")
    /\ UNCHANGED <<now, created, job, jobs, kind, stopped, next_job, pending, events,
                   hung, fires>>

\* a test that takes every job for due
IsDueAlways(nj) == nj # NoJob

\* LiveScheduler.gen_events: next_job and next_job.next_run <= self.env.now
IsDue(nj) == nj # NoJob /\ job[nj].next_run <= now

\* LiveScheduler.gen_events: one iteration, up to its await
LiveStep ==
    /\ kind = "live"
    /\ pc = "run"
    /\ next_job' = GetNextJob
    /\ IF IsDue(GetNextJob)
       THEN IF GenEventRaises(GetNextJob)
            THEN \* nothing catches the error: it leaves the coroutine
                 /\ GenEventFails(GetNextJob)
                 /\ pc' = "raised"
                 /\ last' = Did("live_gen_raise", GetNextJob, "")
            ELSE /\ Len(events) < MaxEvents
                 /\ GenEvent(GetNextJob)
                 /\ pc' = "put"
                 /\ last' = Did("live_fire", GetNextJob, "")
       ELSE /\ pc' = "sleep"
            /\ last' = Did("live_sleep", GetNextJob, "")
            /\ UNCHANGED <<job, jobs, pending, fires>>
    /\ UNCHANGED <<now, created, kind, stopped, limit_dt, events, hung>>

\* LiveScheduler.gen_events: put_event returns
LivePut ==
    /\ kind = "live"
    /\ PutReturns
    /\ last' = Did("live_put", next_job, "")

\* LiveScheduler.gen_events: asyncio.sleep(1) returns
LiveWake ==
    /\ kind = "live"
    /\ pc = "sleep"
    /\ pc' = "run"
    /\ last' = Did("live_wake", NoJob, "")
    /\ UNCHANGED <<now, created, job, jobs, kind, stopped, limit_dt, next_job, pending,
                   events, hung, fires>>

\* LiveScheduler.stop: cancel_all_jobs, and nothing that reaches gen_events
Stop ==
    /\ kind = "live"
    /\ CallerRuns
    /\ jobs' = <<>>
    /\ stopped' = TRUE
    /\ last' = Did("stop", NoJob, "")
    /\ UNCHANGED <<now, created, job, kind, pc, limit_dt, next_job, pending, events,
                   hung, fires>>

\* a horizon test that lets the instant of the horizon pass as beyond it
BeyondLimitEq(nj) == limit_dt # NoneDt /\ nj # NoJob /\ job[nj].next_run >= limit_dt

\* BackTrackScheduler.gen_events: limit_dt and next_job and next_job.next_run > limit_dt
BeyondLimit(nj) == limit_dt # NoneDt /\ nj # NoJob /\ job[nj].next_run > limit_dt

\* BackTrackScheduler.gen_events: one iteration, up to its await or its end
BTStep ==
    /\ kind = "backtrack"
    /\ pc = "run"
    /\ next_job' = GetNextJob
    /\ IF BeyondLimit(GetNextJob)
       THEN /\ pc' = "returned"
            /\ last' = Did("bt_return", GetNextJob, "")
            /\ UNCHANGED <<job, jobs, pending, fires>>
       ELSE IF GetNextJob = NoJob
       THEN \* None.gen_event(): AttributeError leaves the coroutine
            /\ pc' = "raised"
            /\ last' = Did("bt_raise", NoJob, "")
            /\ UNCHANGED <<job, jobs, pending, fires>>
       ELSE IF GenEventRaises(GetNextJob)
       THEN \* nothing catches the error: it leaves the coroutine
            /\ GenEventFails(GetNextJob)
            /\ pc' = "raised"
            /\ last' = Did("bt_gen_raise", GetNextJob, "")
       ELSE /\ Len(events) < MaxEvents
            /\ GenEvent(GetNextJob)
            /\ pc' = "put"
            /\ last' = Did("bt_fire", GetNextJob, "")
    /\ UNCHANGED <<now, created, kind, stopped, limit_dt, events, hung>>

\* BackTrackScheduler.gen_events: put_event returns
BTPut ==
    /\ kind = "backtrack"
    /\ PutReturns
    /\ last' = Did("bt_put", next_job, "")

\* env.now moves on
Tick ==
    /\ Suspended
    /\ now < T0 + MaxTick
    /\ now' = now + 1
    /\ last' = Did("tick", NoJob, "")
    /\ UNCHANGED <<created, job, jobs, kind, stopped, pc, limit_dt, next_job, pending,
                   events, hung, fires>>

\* the dispatcher takes the oldest event it was handed off its queue
Consume ==
    /\ Suspended
    /\ events # <<>>
    /\ events' = Tail(events)
    /\ last' = Did("consume", NoJob, "")
    /\ UNCHANGED <<now, created, job, jobs, kind, stopped, pc, limit_dt, next_job,
                   pending, hung, fires>>

(***************************************************************************)
(* The scheduler with its driver: once jobs and jobs that run every few    *)
(* seconds, registered, cancelled and cleared while a driver runs.         *)
(***************************************************************************)
Next ==
    \/ \E j \in JobIds, s \in StepValues : Every(j, s)
    \/ \E j \in JobIds, dt \in OnceAnchors \cup {NoDt} : At(j, dt)
    \/ \E j \in JobIds : SetUnit(j, "seconds")
    \/ \E j \in JobIds : Do(j)
    \/ \E j \in JobIds : Cancel(j)
    \/ ClearAll
    \/ \E l \in Limits : Start(l)
    \/ LiveStep
    \/ LivePut
    \/ LiveWake
    \/ BTStep
    \/ BTPut
    \/ Tick

Spec == Init /\ [][Next]_vars

(***************************************************************************)
(* The live driver and stop(): once jobs are registered before and after   *)
(* the event source is stopped.                                            *)
(***************************************************************************)
StopNext ==
    \/ \E j \in JobIds, dt \in OnceAnchors : At(j, dt)
    \/ \E j \in JobIds : Do(j)
    \/ Start(NoneDt)
    \/ LiveStep
    \/ LivePut
    \/ LiveWake
    \/ Stop
    \/ Tick

StopSpec == InitWith(T0, "live") /\ [][StopNext]_vars

(***************************************************************************)
(* The drivers and a job that fails: to() with a step below min_step is    *)
(* called on a registered job, and its next draw of a step raises.         *)
(***************************************************************************)
ErrNext ==
    \/ \E j \in JobIds, s \in StepValues : Every(j, s)
    \/ \E j \in JobIds : SetUnit(j, "seconds")
    \/ \E j \in JobIds : Do(j)
    \/ \E j \in JobIds, s \in ToValues : ToRegistered(j, s)
    \/ \E l \in Limits : Start(l)
    \/ LiveStep
    \/ LivePut
    \/ LiveWake
    \/ BTStep
    \/ BTPut
    \/ Tick

ErrSpec == Init /\ [][ErrNext]_vars

\* put_event returns once the dispatcher's queue has room for the event after it
LivePutWhenRoom ==
    /\ Len(events) + 1 < MaxEvents
    /\ LivePut

(***************************************************************************)
(* The live driver under fair scheduling: the jobs are registered, then    *)
(* the driver runs; its steps, the return of put_event, the clock (up to   *)
(* its bound) and the dispatcher's consumption of the events all keep      *)
(* happening.                                                              *)
(***************************************************************************)
FairNext ==
    \/ \E j \in JobIds, s \in StepValues : pc = "idle" /\ Every(j, s)
    \/ \E j \in JobIds : pc = "idle" /\ SetUnit(j, "seconds")
    \/ \E j \in JobIds : pc = "idle" /\ Do(j)
    \/ Start(NoneDt)
    \/ LiveStep
    \/ LivePutWhenRoom
    \/ LiveWake
    \/ Consume
    \/ Tick

FairSpec ==
    /\ InitWith(T0, "live")
    /\ [][FairNext]_vars
    /\ WF_vars(Start(NoneDt))
    /\ WF_vars(LiveStep)
    /\ WF_vars(LivePutWhenRoom)
    /\ WF_vars(LiveWake)
    /\ WF_vars(Consume)
    /\ WF_vars(Tick)

(***************************************************************************)
(* The registry alone: tagged jobs are registered, cancelled and cleared.  *)
(***************************************************************************)
RegNext ==
    \/ \E j \in JobIds, dt \in OnceAnchors : At(j, dt)
    \/ \E j \in JobIds, t \in Tags : Tag(j, t)
    \/ \E j \in JobIds : Do(j)
    \/ \E j \in JobIds : Cancel(j)
    \/ \E t \in Tags : Clear(t)
    \/ ClearAll
    \/ CancelAllJobs
    \/ IdleSecondsCall

RegSpec == InitWith(T0, "live") /\ [][RegNext]_vars

(***************************************************************************)
(* The first run alone: one job of any unit, step range and anchor is      *)
(* built and registered at one of several instants of the calendar.        *)
(***************************************************************************)
\* the instants env.now shows when the job is built
CalNows == {T0, MkDt(2024, 1, 1, 11, 0, 0), MkDt(2024, 1, 31, 23, 59, 59),
            MkDt(2023, 2, 28, 12, 0, 30)}
\* the anchors: "10:00", "31 08:30:15", "02-29", "2025-06-15 09:00:00"
CalAnchors == {MkDt(2024, 1, 1, 10, 0, 0), MkDt(2024, 1, 31, 8, 30, 15),
               MkDt(2024, 2, 29, 0, 0, 0), MkDt(2025, 6, 15, 9, 0, 0)}
PeriodicUnits == UnitTypes \ {"once"}
CalJobs == {1}

CalInit == \E n \in CalNows : InitWith(n, "live")

CalNext ==
    \/ \E j \in CalJobs, s \in StepValues : Every(j, s)
    \/ \E j \in CalJobs, dt \in CalAnchors \cup {NoDt} : At(j, dt)
    \/ \E j \in CalJobs, u \in PeriodicUnits : SetUnit(j, u)
    \/ \E j \in CalJobs, s \in ToValues : To(j, s)
    \/ \E j \in CalJobs, dt \in CalAnchors \cup {NoDt} : JobAt(j, dt)
    \/ \E j \in CalJobs : Do(j)

CalSpec == CalInit /\ [][CalNext]_vars

(***************************************************************************)
(* Properties.                                                             *)
(***************************************************************************)
\* the place of the first entry of j in reg (0: none)
FirstIndex(reg, j) ==
    IF j \in Range(reg) THEN CHOOSE i \in 1..Len(reg) :
                                /\ reg[i] = j
                                /\ \A k \in 1..(i - 1) : reg[k] # j
    ELSE 0

\* the step is one in which a driver generates a fire event
Generates == pending = NoEvent /\ pending' # NoEvent

C2_NextDue ==
    IF jobs = <<>> THEN GetNextJob = NoJob
    ELSE \E i \in 1..Len(jobs) :
            /\ jobs[i] = GetNextJob
            /\ \A k \in 1..Len(jobs) : job[jobs[i]].next_run <= job[jobs[k]].next_run
            /\ \A k \in 1..(i - 1) : job[jobs[i]].next_run < job[jobs[k]].next_run

\* C2, witness: two different jobs share the smallest next_run
C2_TieInRegistry ==
    /\ Len(jobs) >= 2
    /\ jobs[1] # jobs[2]
    /\ job[jobs[1]].next_run = job[jobs[2]].next_run
    /\ \A k \in 1..Len(jobs) : job[jobs[1]].next_run <= job[jobs[k]].next_run

\* C3, as claimed: when do() has registered a job of any unit, its next_run is
\* later than now.
C3_FirstRunAfterNow ==
    last.op = "do" => job[last.job].next_run > now

\* C3, amended: when do() has registered a periodic job, its next_run is not earlier
\* than now, and is later than now when min_step >= 1; the next_run of a once job is
\* its anchor, whether that is later than now or not.
C3_FirstRun ==
    last.op = "do" =>
        LET jb == job[last.job]
        IN  IF jb.unit = "once" THEN jb.next_run = jb.offset_dt
            ELSE /\ jb.next_run >= now
                 /\ jb.min_step >= 1 => jb.next_run > now

\* C3, witness: a daily job registered after the anchor's time of day has passed
C3_DailyAfterAnchor ==
    /\ last.op = "do"
    /\ job[last.job].unit = "days"
    /\ job[last.job].min_step >= 1
    /\ job[last.job].offset_dt % 86400 < now % 86400
    /\ job[last.job].next_run > now

\* C4: in the state right after a driver generated the event of a once job, the job
\* is not in the registry and get_next_job does not return it.
C4_OnceAbsentAfterFire ==
    (last.op \in {"live_fire", "bt_fire"} /\ job[last.job].unit = "once") =>
        /\ last.job \notin Range(jobs)
        /\ GetNextJob # last.job

C6_EmptyRegistryReturns ==
    (kind = "backtrack" /\ pc \in {"returned", "raised"} /\ last.op \in {"bt_return", "bt_raise"}
        /\ jobs = <<>>) => pc = "returned"

\* C7: after cancel(job) the job is not in the registry and get_next_job does not
\* return it.
C7_CancelRemoves ==
    last.op = "cancel" => (last.job \notin Range(jobs) /\ GetNextJob # last.job)

\* C8: clear(tag) with a tag keeps, in their order and unchanged, the registry
\* entries of the jobs that do not carry the tag and no other entry; clear(None)
\* empties the registry.
C8_ClearByTag ==
    [][/\ last'.op = "clear" =>
            /\ jobs' = SelectSeq(jobs, LAMBDA j : last'.tag \notin job[j].tags)
            /\ job' = job
       /\ last'.op = "clear_all" => jobs' = <<>>
      ]_vars

\* C8, witness: clear(tag) has removed an entry and kept another
C8_ClearedSome ==
    /\ last.op = "clear"
    /\ Len(jobs) < last.len
    /\ jobs # <<>>

\* C9: an iteration of the live driver generates an event only for a registered job
\* whose next_run is the smallest of the registry and not later than now; when the
\* registry is empty or no next_run is that early, it generates nothing, changes no
\* job and no registry entry, and goes to sleep.
C9_LiveFiresOnlyDue ==
    [][(kind = "live" /\ pc = "run") =>
          /\ Generates =>
                /\ pending'.job \in Range(jobs)
                /\ job[pending'.job].next_run <= now
                /\ \A k \in Range(jobs) :
                      job[pending'.job].next_run <= job[k].next_run
          /\ (\A k \in Range(jobs) : job[k].next_run > now) =>
                /\ pc' = "sleep"
                /\ UNCHANGED <<job, jobs, events, pending>>
       ]_vars

\* C9, witness: the live driver fired one of two different registered jobs
C9_LiveFired ==
    /\ kind = "live"
    /\ last.op = "live_fire"
    /\ \E j \in Range(fires.reg) : j # pending.job

\* C10: the event a driver generates carries the next_run the job had before the
\* step, and after the step that instant is the last_run of a periodic job.
C10_EventCarriesNextRun ==
    [][Generates =>
          /\ pending'.dt = job[pending'.job].next_run
          /\ job[pending'.job].unit # "once" =>
                job'[pending'.job].last_run = pending'.dt
      ]_vars

\* C10, witness: the BackTrack driver fired a periodic job at an instant that is
\* neither the clock's nor the job's new next_run
C10_FiredAhead ==
    /\ kind = "backtrack"
    /\ last.op = "bt_fire"
    /\ job[pending.job].unit # "once"
    /\ pending.dt # now
    /\ pending.dt # job[pending.job].next_run
    /\ pending.dt = job[pending.job].last_run

\* C11: right after a driver fired a periodic job, the job's next_run is its
\* last_run plus s units for a step s of min_step..max_step, and is later than the
\* next_run it had before the firing (its last_run now).
C11_NextRunAdvances ==
    (last.op \in {"live_fire", "bt_fire"} /\ job[last.job].unit # "once") =>
        LET jb == job[last.job]
        IN  /\ \E s \in Steps(last.job) : jb.next_run = AddUnits(jb.last_run, jb.unit, s)
            /\ jb.next_run > jb.last_run

\* C12: every registered job has min_step >= 1 and max_step >= min_step.
C12_StepsValid ==
    \A j \in Range(jobs) : job[j].min_step >= 1 /\ job[j].max_step >= job[j].min_step

\* C13: once stop() has been called, the live driver generates no fire event.
C13_NoFireAfterStop ==
    stopped => last.op # "live_fire"

\* C14: a job is never cancelled in a state where its event has been generated and
\* is not yet pushed to the dispatcher.
C14_NoPartialFire ==
    (pc = "put" /\ last.op = "cancel") => pending.job # last.job

\* C15: no job stands twice in the registry.
C15_UniqueIds ==
    \A i, k \in 1..Len(jobs) : i # k => jobs[i] # jobs[k]

\* C16: a call of idle_seconds never ends with an error, whether or not the
\* registry is empty.
C16_IdleSecondsNeverRaises ==
    last.op # "idle_seconds_raised"

\* C17: when the handling of one job has raised an error while another job is
\* registered, the driver's loop has not ended.
C17_ErrorDoesNotEndLoop ==
    (/\ last.op \in {"live_gen_raise", "bt_gen_raise"}
     /\ \E k \in Range(jobs) : k # last.job) => pc # "raised"

\* C18: a job without a unit, or one whose to() was given a step below min_step, is
\* never in the registry.
C18_MisconfiguredNeverRegistered ==
    \A j \in Range(jobs) :
        job[j].unit \in UnitTypes /\ job[j].max_step >= job[j].min_step

\* C19: a daily job of step 1 whose anchor's time of day is later than now's is
\* first run on the date of now, at the anchor's time of day.
C19_SameDayFirstRun ==
    (/\ last.op = "do"
     /\ job[last.job].unit = "days"
     /\ job[last.job].min_step = 1 /\ job[last.job].max_step = 1
     /\ TimeOfDay(job[last.job].offset_dt) > TimeOfDay(now)) =>
        job[last.job].next_run = (now - TimeOfDay(now)) + TimeOfDay(job[last.job].offset_dt)

\* C20: the first run of a weekly job that was given an anchor falls on the
\* anchor's day of the week, at the anchor's time of day.
C20_WeeksHonoursAnchor ==
    (/\ last.op = "do"
     /\ job[last.job].unit = "weeks"
     /\ job[last.job].offset_dt # Epoch) =>
        /\ TimeOfDay(job[last.job].next_run) = TimeOfDay(job[last.job].offset_dt)
        /\ Weekday(job[last.job].next_run) = Weekday(job[last.job].offset_dt)

\* C21: under fair scheduling of the running live driver, a registered job whose
\* next_run is not later than now is eventually fired.
C21_NoStarvation ==
    \A j \in JobIds :
        (pc # "idle" /\ j \in Range(jobs) /\ job[j].next_run <= now)
            ~> (pending.job = j)

\* C21, for the registries in which every step is positive: under fair scheduling
\* of the running live driver, a registered job that is due is eventually fired.
C21_FiredWhenStepsPositive ==
    \A j \in JobIds :
        (/\ pc # "idle" /\ j \in Range(jobs) /\ job[j].next_run <= now
         /\ \A k \in Range(jobs) : job[k].min_step >= 1) ~> (pending.job = j)

=============================================================================
